---- MODULE Spec2Model ----
(***************************************************************************)
(* Role-based authorization core of lokicms-plugin-mcp-auth: the auth      *)
(* instance built by createMCPAuth (mcp-auth.ts), its built-in policy      *)
(* (defaults.ts) and the middleware that gates tool execution              *)
(* (middleware.ts).                                                        *)
(*                                                                         *)
(* JavaScript values are modelled by what the code can observe of them:    *)
(*   - a string is a TLA+ string when it is only compared (role keys, tool *)
(*     names) and a sequence of one-character strings when the code takes  *)
(*     it apart (credentials and credential prefixes);                     *)
(*   - an optional value is <<>> (undefined) or <<v>>;                     *)
(*   - config.roles and config.apiKeyMap are ordinary objects: a property  *)
(*     read also finds the members inherited from Object.prototype, and    *)
(*     Object.entries lists integer-like keys first, in ascending order.   *)
(***************************************************************************)
EXTENDS Integers, Sequences, FiniteSets, TLC

VARIABLES
  config,      \* the instance's config: roles, defaultRole, apiKeyMap, knownTools
  env,         \* process.env: the role claim and the credential
  tools,       \* the host's tool collection (name -> tool)
  last,        \* the last call on the auth instance and what it gave back
  mw,          \* the middleware: created or not, the role it captured, its observers
  call,        \* the executeTool call in flight or just finished
  mapped,      \* history: the prefixes in the order mapApiKey first received them
  outside      \* what lives outside the instance: the roles and apiKeyMap
               \* objects of the caller's userConfig, and the other instances

vars == <<config, env, tools, last, mw, call, mapped, outside>>

----------------------------------------------------------------------------
(* JavaScript values *)

Undefined == [t |-> "undefined"]

\* A member inherited from Object.prototype (a function such as
\* Object.prototype.constructor): truthy, with no tools or blockedTools.
ProtoMember == [t |-> "function"]

None == <<>>
Some(v) == <<v>>
IsSome(o) == Len(o) = 1
Val(o) == o[1]

Ret(v) == [kind |-> "return", val |-> v]
Throw(e) == [kind |-> "throw", err |-> e]

Wildcard == [t |-> "*"]
List(s) == [t |-> "list", v |-> s]

Elems(s) == {s[i] : i \in 1..Len(s)}

\* Array.prototype.includes / Set.prototype.has over strings
includes(s, x) == \E i \in 1..Len(s) : s[i] = x

\* The names Object.prototype defines: a read of obj[name] on an ordinary
\* object finds them when obj has no own property of that name.
ObjectPrototypeKeys ==
  {"constructor", "toString", "toLocaleString", "valueOf", "hasOwnProperty",
   "isPrototypeOf", "propertyIsEnumerable", "__proto__"}

\* String(Object.prototype.constructor): the property key a later read uses
\* when the function is used as a role key.
ObjectCtor == "function Object() { [native code] }"

\* "constructor" as a string the code takes apart.
ConstructorChars == <<"c", "o", "n", "s", "t", "r", "u", "c", "t", "o", "r">>

ObjectPrototypeCharKeys == {ConstructorChars}

----------------------------------------------------------------------------
(* defaults.ts *)

EditorTools ==
  <<
    "list_content_types", "get_content_type", "get_structure_summary",
    "list_entries", "get_entry", "create_entry", "update_entry",
    "delete_entry", "publish_entry", "unpublish_entry", "list_taxonomies",
    "get_taxonomy", "list_terms", "get_term", "assign_terms",
    "get_entries_by_term", "search", "search_in_content_type",
    "search_suggest", "scheduler_status", "scheduler_upcoming",
    "schedule_entry", "cancel_schedule", "revision_list", "revision_compare",
    "revision_stats"
  >>

EditorBlockedTools ==
  <<
    "create_content_type", "delete_content_type", "import_structure",
    "export_structure", "create_taxonomy", "delete_taxonomy", "create_term",
    "update_term", "delete_term", "list_users", "get_user", "create_user",
    "update_user", "update_user_role", "delete_user", "create_api_key",
    "list_api_keys", "revoke_api_key", "webhook_list", "webhook_create",
    "webhook_test", "webhook_stats", "backup_create", "backup_list",
    "backup_restore", "backup_stats", "audit_recent", "audit_query",
    "audit_resource_history", "audit_stats"
  >>

AuthorTools ==
  <<
    "list_content_types", "get_content_type", "get_structure_summary",
    "list_entries", "get_entry", "create_entry", "update_entry",
    "list_taxonomies", "get_taxonomy", "list_terms", "get_term",
    "assign_terms", "search", "search_in_content_type", "search_suggest"
  >>

ViewerTools ==
  <<
    "list_content_types", "get_content_type", "get_structure_summary",
    "list_entries", "get_entry", "list_taxonomies", "get_taxonomy",
    "list_terms", "get_term", "get_entries_by_term", "search",
    "search_in_content_type", "search_suggest"
  >>

DEFAULT_KNOWN_TOOLS ==
  <<
    "list_content_types", "get_content_type", "create_content_type",
    "delete_content_type", "list_entries", "get_entry", "create_entry",
    "update_entry", "delete_entry", "publish_entry", "unpublish_entry",
    "list_taxonomies", "get_taxonomy", "create_taxonomy", "delete_taxonomy",
    "list_terms", "get_term", "create_term", "update_term", "delete_term",
    "assign_terms", "get_entries_by_term", "list_users", "get_user",
    "create_user", "update_user", "update_user_role", "delete_user",
    "create_api_key", "list_api_keys", "revoke_api_key", "search",
    "search_in_content_type", "search_suggest", "scheduler_status",
    "scheduler_upcoming", "schedule_entry", "cancel_schedule",
    "audit_recent", "audit_query", "audit_resource_history", "audit_stats",
    "revision_list", "revision_compare", "revision_stats", "webhook_list",
    "webhook_create", "webhook_test", "webhook_stats", "backup_create",
    "backup_list", "backup_restore", "backup_stats", "export_structure",
    "import_structure", "get_structure_summary"
  >>

RoleConfig(name, description, accessLevel, roleTools, blockedTools) ==
  [t |-> "role", name |-> name, description |-> description,
   accessLevel |-> accessLevel, tools |-> roleTools, blockedTools |-> blockedTools]

DEFAULT_ROLES ==
  [k \in {"admin", "editor", "author", "viewer"} |->
     CASE k = "admin"  -> RoleConfig("Admin", "Full access to all operations",
                                     "full", Wildcard, Undefined)
       [] k = "editor" -> RoleConfig("Editor",
                                     "Can read/write content but not modify structure",
                                     "limited", List(EditorTools), List(EditorBlockedTools))
       [] k = "author" -> RoleConfig("Author", "Can create and manage own content",
                                     "limited", List(AuthorTools), Undefined)
       [] k = "viewer" -> RoleConfig("Viewer", "Read-only access to content",
                                     "limited", List(ViewerTools), Undefined)]

DEFAULT_CONFIG == [defaultRole |-> "viewer"]

----------------------------------------------------------------------------
(* Property reads and writes on the two ordinary objects of config *)

Bool(b) == [t |-> "boolean", v |-> b]
Str(s) == [t |-> "string", v |-> s]
Obj(f) == [t |-> "object", v |-> f]

EmptyObject == [n \in {} |-> Undefined]

\* if (v): every object and function is truthy, undefined is not
Truthy(v) == v # Undefined

\* if (s) for an optional string: undefined and "" are falsy
TruthyStr(o) == IsSome(o) /\ Val(o) # ""

\* if (s) for an optional string held as characters
TruthyChars(o) == IsSome(o) /\ Val(o) # <<>>

\* config.roles[key]
GetRole(roles, key) ==
  IF key \in DOMAIN roles THEN roles[key]
  ELSE IF key \in ObjectPrototypeKeys THEN ProtoMember
  ELSE Undefined

\* roleConfig.tools and roleConfig.blockedTools: undefined on a value that
\* is not a role configuration
ToolsOf(roleConfig) ==
  IF roleConfig.t = "role" THEN roleConfig.tools ELSE Undefined

BlockedToolsOf(roleConfig) ==
  IF roleConfig.t = "role" THEN roleConfig.blockedTools ELSE Undefined

\* config.roles[key] = roleConfig
SetRole(roles, key, roleConfig) ==
  [k \in DOMAIN roles \cup {key} |-> IF k = key THEN roleConfig ELSE roles[k]]

Digits == {"0", "1", "2", "3", "4", "5", "6", "7", "8", "9"}

DigitVal(c) ==
  CASE c = "0" -> 0 [] c = "1" -> 1 [] c = "2" -> 2 [] c = "3" -> 3
    [] c = "4" -> 4 [] c = "5" -> 5 [] c = "6" -> 6 [] c = "7" -> 7
    [] c = "8" -> 8 [] c = "9" -> 9

\* a < b for digit strings without leading zeros
DigitsLess(a, b) ==
  \/ Len(a) < Len(b)
  \/ /\ Len(a) = Len(b)
     /\ \E i \in 1..Len(a) :
          /\ SubSeq(a, 1, i - 1) = SubSeq(b, 1, i - 1)
          /\ DigitVal(a[i]) < DigitVal(b[i])

\* 2^32 - 2, the largest array index
MaxArrayIndexChars == <<"4", "2", "9", "4", "9", "6", "7", "2", "9", "4">>

\* An integer-like property key (a canonical array index): Object.entries
\* lists these first, in ascending numeric order, whatever the order in
\* which they were created.
IsArrayIndex(s) ==
  /\ Len(s) >= 1
  /\ \A i \in 1..Len(s) : s[i] \in Digits
  /\ (s[1] # "0" \/ Len(s) = 1)
  /\ ~DigitsLess(MaxArrayIndexChars, s)

\* The own properties of config.apiKeyMap are a sequence of
\* [prefix, role] in Object.entries order.
OwnIndex(apiKeyMap, prefix) ==
  IF \E i \in 1..Len(apiKeyMap) : apiKeyMap[i].prefix = prefix
  THEN CHOOSE i \in 1..Len(apiKeyMap) : apiKeyMap[i].prefix = prefix
  ELSE 0

\* config.apiKeyMap[prefix]: the mapped role, an inherited member, or undefined
GetMapped(apiKeyMap, prefix) ==
  IF OwnIndex(apiKeyMap, prefix) # 0
  THEN Some(apiKeyMap[OwnIndex(apiKeyMap, prefix)].role)
  ELSE IF prefix \in ObjectPrototypeCharKeys THEN Some(ObjectCtor)
  ELSE None

\* config.apiKeyMap[prefix] = role
SetMapped(apiKeyMap, prefix, role) ==
  LET e == [prefix |-> prefix, role |-> role]
      i == OwnIndex(apiKeyMap, prefix)
      before == Cardinality({j \in 1..Len(apiKeyMap) :
                   /\ IsArrayIndex(apiKeyMap[j].prefix)
                   /\ DigitsLess(apiKeyMap[j].prefix, prefix)})
  IN  IF i # 0 THEN [apiKeyMap EXCEPT ![i] = e]
      ELSE IF IsArrayIndex(prefix)
      THEN SubSeq(apiKeyMap, 1, before) \o <<e>>
             \o SubSeq(apiKeyMap, before + 1, Len(apiKeyMap))
      ELSE Append(apiKeyMap, e)

\* String.prototype.substring(0, n)
substring(s, n) == SubSeq(s, 1, IF Len(s) < n THEN Len(s) ELSE n)

\* String.prototype.startsWith
startsWith(s, p) == Len(p) <= Len(s) /\ SubSeq(s, 1, Len(p)) = p

----------------------------------------------------------------------------
(* mcp-auth.ts: createMCPAuth *)

PrefixLen == 14

\* A construction whose merge lets the built-in definitions win on a key
\* collision.
createMCPAuth_DefaultsWin(userRoles, defaultRole, apiKeyMap, knownTools) ==
  [roles       |-> [k \in DOMAIN DEFAULT_ROLES \cup DOMAIN userRoles |->
                      IF k \in DOMAIN DEFAULT_ROLES THEN DEFAULT_ROLES[k]
                      ELSE userRoles[k]],
   defaultRole |-> IF IsSome(defaultRole) THEN Val(defaultRole)
                   ELSE DEFAULT_CONFIG.defaultRole,
   apiKeyMap   |-> IF IsSome(apiKeyMap) THEN Val(apiKeyMap) ELSE <<>>,
   knownTools  |-> IF IsSome(knownTools) THEN Val(knownTools) ELSE DEFAULT_KNOWN_TOOLS]

\* createMCPAuth(userConfig): userRoles is userConfig.roles (the empty object
\* when absent); the other fields are optional
createMCPAuth(userRoles, defaultRole, apiKeyMap, knownTools) ==
  [roles       |-> [k \in DOMAIN DEFAULT_ROLES \cup DOMAIN userRoles |->
                      IF k \in DOMAIN userRoles THEN userRoles[k] ELSE DEFAULT_ROLES[k]],
   defaultRole |-> IF IsSome(defaultRole) THEN Val(defaultRole)
                   ELSE DEFAULT_CONFIG.defaultRole,
   apiKeyMap   |-> IF IsSome(apiKeyMap) THEN Val(apiKeyMap) ELSE <<>>,
   knownTools  |-> IF IsSome(knownTools) THEN Val(knownTools) ELSE DEFAULT_KNOWN_TOOLS]

\* export const mcpAuth = createMCPAuth()
mcpAuth == createMCPAuth(EmptyObject, None, None, None)

\* What lives outside an instance constructed by createMCPAuth(userConfig):
\* the caller's userConfig.roles and userConfig.apiKeyMap objects (by their
\* contents) and the other instances of the process, each with whether it
\* was constructed from the same userConfig.
Outside(userRoles, apiKeyMap, others) ==
  [userRoles |-> userRoles, userApiKeyMap |-> apiKeyMap, others |-> others]

Instance(cfg, fromUserConfig) == [config |-> cfg, fromUserConfig |-> fromUserConfig]

\* createMCPAuth keeps userConfig.apiKeyMap itself as config.apiKeyMap (a new
\* object only when the caller passed none), so a write to config.apiKeyMap
\* is a write to the caller's object, which every instance constructed
\* from it holds too. config.roles is always a new object.
WriteThrough(out, apiKeyMap) ==
  IF IsSome(out.userApiKeyMap)
  THEN [out EXCEPT
          !.userApiKeyMap = Some(apiKeyMap),
          !.others = [i \in DOMAIN out.others |->
                        IF out.others[i].fromUserConfig
                        THEN [out.others[i] EXCEPT !.config.apiKeyMap = apiKeyMap]
                        ELSE out.others[i]]]
  ELSE out

\* A resolver whose scan prefers the longest matching prefix.
getRoleFromApiKey_LongestMatch(cfg, apiKey) ==
  LET prefix == substring(apiKey, PrefixLen)
      exact == GetMapped(cfg.apiKeyMap, prefix)
      matching == {i \in 1..Len(cfg.apiKeyMap) :
                     startsWith(apiKey, cfg.apiKeyMap[i].prefix)}
  IN  IF TruthyStr(exact) THEN Val(exact)
      ELSE IF matching # {}
      THEN cfg.apiKeyMap[CHOOSE i \in matching : \A j \in matching :
                           Len(cfg.apiKeyMap[i].prefix) >= Len(cfg.apiKeyMap[j].prefix)].role
      ELSE cfg.defaultRole

getRoleFromApiKey(cfg, apiKey) ==
  LET prefix == substring(apiKey, PrefixLen)
      exact == GetMapped(cfg.apiKeyMap, prefix)
      matching == {i \in 1..Len(cfg.apiKeyMap) :
                     startsWith(apiKey, cfg.apiKeyMap[i].prefix)}
  IN  IF TruthyStr(exact) THEN Val(exact)
      ELSE IF matching # {}
      THEN cfg.apiKeyMap[CHOOSE i \in matching : \A j \in matching : i <= j].role
      ELSE cfg.defaultRole

\* A resolution that honours the role claim only for a role that is not a
\* wildcard role.
getRoleFromEnv_NoWildcardClaim(cfg, e) ==
  IF /\ TruthyStr(e.role)
     /\ Truthy(GetRole(cfg.roles, Val(e.role)))
     /\ ToolsOf(GetRole(cfg.roles, Val(e.role))) # Wildcard
  THEN Val(e.role)
  ELSE IF TruthyChars(e.apiKey)
  THEN getRoleFromApiKey(cfg, Val(e.apiKey))
  ELSE cfg.defaultRole

getRoleFromEnv(cfg, e) ==
  IF TruthyStr(e.role) /\ Truthy(GetRole(cfg.roles, Val(e.role)))
  THEN Val(e.role)
  ELSE IF TruthyChars(e.apiKey)
  THEN getRoleFromApiKey(cfg, Val(e.apiKey))
  ELSE cfg.defaultRole

\* An allowed list that is the known-tools universe for every registered
\* role.
getAllowedTools_KnownForAll(cfg, role) ==
  LET roleConfig == GetRole(cfg.roles, role)
  IN  IF ~Truthy(roleConfig) THEN Ret(List(<<>>))
      ELSE Ret(List(cfg.knownTools))

getAllowedTools(cfg, role) ==
  LET roleConfig == GetRole(cfg.roles, role)
  IN  IF ~Truthy(roleConfig) THEN Ret(List(<<>>))
      ELSE IF ToolsOf(roleConfig) = Wildcard THEN Ret(List(cfg.knownTools))
      ELSE Ret(ToolsOf(roleConfig))

\* A blocked list computed as the known tools the role does not allow.
getBlockedTools_Complement(cfg, role) ==
  LET roleConfig == GetRole(cfg.roles, role)
      NotAllowed(x) == ~includes(ToolsOf(roleConfig).v, x)
  IN  IF ~Truthy(roleConfig) \/ ToolsOf(roleConfig) = Wildcard
           \/ ToolsOf(roleConfig) = Undefined
      THEN Ret(List(<<>>))
      ELSE Ret(List(SelectSeq(cfg.knownTools, NotAllowed)))

getBlockedTools(cfg, role) ==
  LET roleConfig == GetRole(cfg.roles, role)
  IN  IF ~Truthy(roleConfig) \/ ToolsOf(roleConfig) = Wildcard THEN Ret(List(<<>>))
      ELSE IF Truthy(BlockedToolsOf(roleConfig)) THEN Ret(BlockedToolsOf(roleConfig))
      ELSE Ret(List(<<>>))

\* role is the optional second argument
isToolAllowed(cfg, e, toolName, role) ==
  LET currentRole == IF TruthyStr(role) THEN Val(role) ELSE getRoleFromEnv(cfg, e)
      roleConfig == GetRole(cfg.roles, currentRole)
  IN  IF ~Truthy(roleConfig) THEN Ret(Bool(FALSE))
      ELSE IF ToolsOf(roleConfig) = Wildcard THEN Ret(Bool(TRUE))
      ELSE IF ToolsOf(roleConfig) = Undefined THEN Throw("TypeError")
      ELSE Ret(Bool(includes(ToolsOf(roleConfig).v, toolName)))

\* A filter that walks the role's tool list instead of the collection: it
\* also yields the permitted names the collection does not have.
filterTools_WalksRoleTools(cfg, e, coll, role) ==
  LET currentRole == IF TruthyStr(role) THEN Val(role) ELSE getRoleFromEnv(cfg, e)
      roleConfig == GetRole(cfg.roles, currentRole)
      allowedTools == IF ToolsOf(roleConfig) = Undefined THEN {}
                      ELSE Elems(ToolsOf(roleConfig).v)
  IN  IF ~Truthy(roleConfig) THEN Ret(Obj(EmptyObject))
      ELSE IF ToolsOf(roleConfig) = Wildcard THEN Ret(Obj(coll))
      ELSE Ret(Obj([name \in allowedTools |->
                      IF name \in DOMAIN coll THEN coll[name] ELSE Undefined]))

\* A filter whose walk over the collection skips its first entry.
filterTools_SkipsFirst(cfg, e, coll, role) ==
  LET currentRole == IF TruthyStr(role) THEN Val(role) ELSE getRoleFromEnv(cfg, e)
      roleConfig == GetRole(cfg.roles, currentRole)
      allowedTools == IF ToolsOf(roleConfig) = Undefined THEN {}
                      ELSE Elems(ToolsOf(roleConfig).v)
      walked == IF DOMAIN coll = {} THEN {}
                ELSE DOMAIN coll \ {CHOOSE n \in DOMAIN coll : TRUE}
  IN  IF ~Truthy(roleConfig) THEN Ret(Obj(EmptyObject))
      ELSE IF ToolsOf(roleConfig) = Wildcard THEN Ret(Obj(coll))
      ELSE Ret(Obj([name \in {n \in walked : n \in allowedTools} |-> coll[name]]))

\* coll is the collection (name -> entry); role is the optional second argument
filterTools(cfg, e, coll, role) ==
  LET currentRole == IF TruthyStr(role) THEN Val(role) ELSE getRoleFromEnv(cfg, e)
      roleConfig == GetRole(cfg.roles, currentRole)
      allowedTools == IF ToolsOf(roleConfig) = Undefined THEN {}
                      ELSE Elems(ToolsOf(roleConfig).v)
  IN  IF ~Truthy(roleConfig) THEN Ret(Obj(EmptyObject))
      ELSE IF ToolsOf(roleConfig) = Wildcard THEN Ret(Obj(coll))
      ELSE Ret(Obj([name \in {n \in DOMAIN coll : n \in allowedTools} |-> coll[name]]))

\* A registration that replaces the role map by one that holds the new
\* role only.
registerRole_ReplacesMap(cfg, key, roleConfig) ==
  [cfg EXCEPT !.roles = [k \in {key} |-> roleConfig]]

registerRole(cfg, key, roleConfig) ==
  [cfg EXCEPT !.roles = SetRole(cfg.roles, key, roleConfig)]

mapApiKey(cfg, prefix, role) ==
  [cfg EXCEPT !.apiKeyMap = SetMapped(cfg.apiKeyMap, prefix, role)]

\* The identity tags of an AuthResult and a ToolFilter: `api-key:${prefix}`,
\* 'env-role' and 'anonymous'; and the error text `Unknown role: ${role}`
UserId(tag, chars) == [tag |-> tag, chars |-> chars]

UnknownRole(role) == [tag |-> "Unknown role", role |-> role]

AuthResult(authenticated, role, userId, error) ==
  [authenticated |-> authenticated, role |-> role, userId |-> userId,
   error |-> error]

\* An authentication whose identity tag follows the branch the resolution
\* took: the credential tag only when the role claim was not used.
authenticateAgent_TagByResolution(cfg, e) ==
  LET role == getRoleFromEnv(cfg, e)
      apiKey == e.apiKey
      claimed == TruthyStr(e.role) /\ Truthy(GetRole(cfg.roles, Val(e.role)))
  IN  IF ~Truthy(GetRole(cfg.roles, role))
      THEN Ret(AuthResult(FALSE, None, None, Some(UnknownRole(role))))
      ELSE Ret(AuthResult(TRUE, Some(role),
                 Some(IF ~claimed /\ TruthyChars(apiKey)
                      THEN UserId("api-key", substring(Val(apiKey), PrefixLen))
                      ELSE UserId("env-role", <<>>)),
                 None))

authenticateAgent(cfg, e) ==
  LET role == getRoleFromEnv(cfg, e)
      apiKey == e.apiKey
  IN  IF ~Truthy(GetRole(cfg.roles, role))
      THEN Ret(AuthResult(FALSE, None, None, Some(UnknownRole(role))))
      ELSE Ret(AuthResult(TRUE, Some(role),
                 Some(IF TruthyChars(apiKey)
                      THEN UserId("api-key", substring(Val(apiKey), PrefixLen))
                      ELSE UserId("env-role", <<>>)),
                 None))

ToolFilter(allowedTools, blockedTools, role, userId) ==
  [allowedTools |-> allowedTools, blockedTools |-> blockedTools,
   role |-> role, userId |-> userId]

getToolFilter(cfg, e) ==
  LET auth == authenticateAgent(cfg, e).val
      role == IF TruthyStr(auth.role) THEN Val(auth.role) ELSE cfg.defaultRole
  IN  Ret(ToolFilter(getAllowedTools(cfg, role).val, getBlockedTools(cfg, role).val,
                     role,
                     IF IsSome(auth.userId) THEN Val(auth.userId)
                     ELSE UserId("anonymous", <<>>)))

\* Object.entries(config.roles) as a sequence of keys: every own key once.
\* The order of the keys is not modelled.
RECURSIVE KeysOf(_)
KeysOf(keys) ==
  IF keys = {} THEN <<>>
  ELSE LET k == CHOOSE x \in keys : TRUE
       IN  <<k>> \o KeysOf(keys \ {k})

RoleInfo(key, name, description, accessLevel, toolCount) ==
  [key |-> key, name |-> name, description |-> description,
   accessLevel |-> accessLevel, toolCount |-> toolCount]

\* A listing that counts a wildcard role by the built-in universe instead
\* of the instance's.
getRoles_BuiltInUniverse(cfg) ==
  LET keys == KeysOf(DOMAIN cfg.roles)
  IN  IF \E k \in DOMAIN cfg.roles : ToolsOf(cfg.roles[k]) = Undefined
      THEN Throw("TypeError")
      ELSE Ret(List([i \in 1..Len(keys) |->
             LET roleConfig == cfg.roles[keys[i]]
             IN  RoleInfo(keys[i], roleConfig.name, roleConfig.description,
                          roleConfig.accessLevel,
                          IF ToolsOf(roleConfig) = Wildcard
                          THEN Len(DEFAULT_KNOWN_TOOLS)
                          ELSE Len(ToolsOf(roleConfig).v))]))

getRoles(cfg) ==
  LET keys == KeysOf(DOMAIN cfg.roles)
  IN  IF \E k \in DOMAIN cfg.roles : ToolsOf(cfg.roles[k]) = Undefined
      THEN Throw("TypeError")
      ELSE Ret(List([i \in 1..Len(keys) |->
             LET roleConfig == cfg.roles[keys[i]]
             IN  RoleInfo(keys[i], roleConfig.name, roleConfig.description,
                          roleConfig.accessLevel,
                          IF ToolsOf(roleConfig) = Wildcard THEN Len(cfg.knownTools)
                          ELSE Len(ToolsOf(roleConfig).v))]))

\* roleConfig.name and roleConfig.description: a function inherited from
\* Object.prototype has its own name and no description
NameOf(roleConfig) ==
  IF roleConfig.t = "role" THEN Str(roleConfig.name) ELSE Str("Object")

DescriptionOf(roleConfig) ==
  IF roleConfig.t = "role" THEN Str(roleConfig.description) ELSE Undefined

AgentInfo(role, name, description, allowedToolCount, blockedToolCount) ==
  [role |-> role, name |-> name, description |-> description,
   allowedToolCount |-> allowedToolCount, blockedToolCount |-> blockedToolCount]

\* roleConfig.name on undefined and allowed.length on undefined both raise
\* a TypeError
getAgentInfo(cfg, e) ==
  LET role == getRoleFromEnv(cfg, e)
      own == GetRole(cfg.roles, role)
      roleConfig == IF Truthy(own) THEN own ELSE GetRole(cfg.roles, cfg.defaultRole)
      allowed == getAllowedTools(cfg, role).val
      blocked == getBlockedTools(cfg, role).val
  IN  IF roleConfig = Undefined \/ allowed = Undefined THEN Throw("TypeError")
      ELSE Ret(AgentInfo(role, NameOf(roleConfig), DescriptionOf(roleConfig),
                         Len(allowed.v), Len(blocked.v)))

----------------------------------------------------------------------------
(* middleware.ts: createMCPMiddleware *)

\* tools[name] on the host's collection, an ordinary object
GetTool(coll, name) ==
  IF name \in DOMAIN coll THEN coll[name]
  ELSE IF name \in ObjectPrototypeKeys THEN ProtoMember
  ELSE Undefined

\* the result object executeTool resolves to: text says what the JSON text
\* carries (the kind of message, the tool name and the role written into it)
Resolved(isError, text) == [kind |-> "resolved", isError |-> isError, text |-> text]
Rejected(err) == [kind |-> "rejected", err |-> err]

DeniedText(name, role) == [msg |-> "Access denied", tool |-> Some(name), role |-> Some(role)]
UnknownToolText(name) == [msg |-> "Unknown tool", tool |-> Some(name), role |-> None]
ErrorText == [msg |-> "error", tool |-> None, role |-> None]
SuccessText == [msg |-> "result", tool |-> None, role |-> None]

NoCall ==
  [pc |-> "idle", name |-> "", check |-> "none", evaluatedRole |-> "",
   handlerRuns |-> 0, denied |-> <<>>, executed |-> <<>>, result |-> Undefined]

\* executeTool(name, args) up to its first suspension point (await
\* tool.handler(...)) or its return. observer is options.onAccessDenied:
\* "absent", or a callback that "returns" or "throws". args are "valid" or
\* "invalid" for the tool's inputSchema.
executeToolStart(cfg, e, coll, m, name, args) ==
  LET check == isToolAllowed(cfg, e, name, None)
      begun == [NoCall EXCEPT !.name = name,
                              !.evaluatedRole = getRoleFromEnv(cfg, e)]
      tool == GetTool(coll, name)
  IN  IF check.kind = "throw"
      THEN [begun EXCEPT !.pc = "done", !.check = "threw",
                         !.result = Rejected(check.err)]
      ELSE IF ~check.val.v
      THEN IF m.onAccessDenied = "absent"
           THEN [begun EXCEPT !.pc = "done", !.check = "false",
                              !.result = Resolved(TRUE, DeniedText(name, m.role))]
           ELSE IF m.onAccessDenied = "throws"
           THEN [begun EXCEPT !.pc = "done", !.check = "false",
                              !.denied = <<[tool |-> name, role |-> m.role]>>,
                              !.result = Rejected("Error")]
           ELSE [begun EXCEPT !.pc = "done", !.check = "false",
                              !.denied = <<[tool |-> name, role |-> m.role]>>,
                              !.result = Resolved(TRUE, DeniedText(name, m.role))]
      ELSE IF ~Truthy(tool)
      THEN [begun EXCEPT !.pc = "done", !.check = "true",
                         !.result = Resolved(TRUE, UnknownToolText(name))]
      ELSE IF tool.t # "tool" \/ args = "invalid"
      THEN \* tool.inputSchema.parse throws inside the try block
           [begun EXCEPT !.pc = "done", !.check = "true",
                         !.result = Resolved(TRUE, ErrorText)]
      ELSE [begun EXCEPT !.pc = "awaiting", !.check = "true", !.handlerRuns = 1]

\* the rest of executeTool once the handler's promise settles: outcome is
\* "rejects", "resolves" (a value JSON.stringify accepts) or "unserialisable"
\* (a value JSON.stringify throws on)
executeToolFinish(c, m, outcome) ==
  IF outcome = "rejects"
  THEN [c EXCEPT !.pc = "done", !.result = Resolved(TRUE, ErrorText)]
  ELSE LET told == IF m.onToolExecuted = "absent" THEN c
                   ELSE [c EXCEPT !.executed = <<[tool |-> c.name, role |-> m.role]>>]
       IN  IF m.onToolExecuted = "throws" \/ outcome = "unserialisable"
           THEN [told EXCEPT !.pc = "done", !.result = Resolved(TRUE, ErrorText)]
           ELSE [told EXCEPT !.pc = "done", !.result = Resolved(FALSE, SuccessText)]

\* getToolsList(): the names of the filtered collection
getToolsList(cfg, e, coll) ==
  LET filteredTools == filterTools(cfg, e, coll, None)
  IN  Ret(Obj(DOMAIN filteredTools.val.v))

\* getRole(): the role captured when the middleware was created
getRole(m) == Ret(Str(m.role))

----------------------------------------------------------------------------
(* Inputs *)

MaxRoles == 5
MaxMappings == 2

Chars_ab == <<"a", "b">>
Chars_abc == <<"a", "b", "c">>
Chars_abcdef == <<"a", "b", "c", "d", "e", "f">>
Chars_1 == <<"1">>
Chars_10 == <<"1", "0">>
Chars_100 == <<"1", "0", "0">>
\* a prefix of exactly PrefixLen characters and a longer credential that
\* starts with it
Chars_14 == <<"a", "b", "c", "d", "e", "f", "g", "h", "i", "j", "k", "l", "m", "n">>
Chars_16 == Chars_14 \o <<"o", "p">>

\* the role of the registerRole test, one whose blockedTools overlap its
\* tools, and a wildcard role that carries a blockedTools list
TesterRole ==
  RoleConfig("Tester", "Test role", "limited", List(<<"list_entries">>), Undefined)
OverlapRole ==
  RoleConfig("Overlap", "Lists a tool as allowed and as blocked", "limited",
             List(<<"list_entries", "tool1">>), List(<<"tool1", "create_user">>))
WildRole ==
  RoleConfig("Wild", "Everything", "full", Wildcard, List(<<"create_user">>))

RoleConfigs == {TesterRole, OverlapRole, WildRole}

ToolNames == {"list_entries", "create_user", "tool1"}

MCPTool(name) == [t |-> "tool", description |-> name, handler |-> name]

Collection(names) == [n \in names |-> MCPTool(n)]

Collections == {Collection({"list_entries", "create_user", "tool1"})}

----------------------------------------------------------------------------
(* The state machine *)

Step(op, args, res) == [op |-> op, args |-> args, res |-> res]

Init ==
  /\ config \in {createMCPAuth(EmptyObject, dr, None, None) :
                   dr \in {None, Some("ghost")}}
  /\ env = [role |-> None, apiKey |-> None]
  /\ tools \in Collections
  /\ last = Step("createMCPAuth", <<>>, Ret(Undefined))
  /\ mw = [created |-> FALSE, role |-> "", onAccessDenied |-> "absent",
           onToolExecuted |-> "absent"]
  /\ call = NoCall
  /\ mapped = <<>>
  /\ outside = Outside(EmptyObject, None, <<>>)

\* process.env[AGENT_ROLE] = v, or delete it
SetEnvRole(v) ==
  /\ env' = [env EXCEPT !.role = v]
  /\ last' = Step("setEnvRole", <<v>>, Ret(Undefined))
  /\ UNCHANGED <<config, tools, mw, call, mapped, outside>>

\* process.env[AGENT_API_KEY] = v, or delete it
SetEnvApiKey(v) ==
  /\ env' = [env EXCEPT !.apiKey = v]
  /\ last' = Step("setEnvApiKey", <<v>>, Ret(Undefined))
  /\ UNCHANGED <<config, tools, mw, call, mapped, outside>>

RegisterRole(key, roleConfig) ==
  /\ key \in DOMAIN config.roles \/ Cardinality(DOMAIN config.roles) < MaxRoles
  /\ config' = registerRole(config, key, roleConfig)
  /\ last' = Step("registerRole", <<key, roleConfig>>, Ret(Undefined))
  /\ UNCHANGED <<env, tools, mw, call, mapped, outside>>

MapApiKey(prefix, role) ==
  /\ OwnIndex(config.apiKeyMap, prefix) # 0 \/ Len(config.apiKeyMap) < MaxMappings
  /\ config' = mapApiKey(config, prefix, role)
  /\ last' = Step("mapApiKey", <<prefix, role>>, Ret(Undefined))
  /\ mapped' = IF includes(mapped, prefix) THEN mapped ELSE Append(mapped, prefix)
  /\ outside' = WriteThrough(outside, config'.apiKeyMap)
  /\ UNCHANGED <<env, tools, mw, call>>

GetRoleFromEnv ==
  /\ last' = Step("getRoleFromEnv", <<>>, Ret(Str(getRoleFromEnv(config, env))))
  /\ UNCHANGED <<config, env, tools, mw, call, mapped, outside>>

GetRoleFromApiKey(apiKey) ==
  /\ last' = Step("getRoleFromApiKey", <<apiKey>>,
                  Ret(Str(getRoleFromApiKey(config, apiKey))))
  /\ UNCHANGED <<config, env, tools, mw, call, mapped, outside>>

GetAllowedTools(role) ==
  /\ last' = Step("getAllowedTools", <<role>>, getAllowedTools(config, role))
  /\ UNCHANGED <<config, env, tools, mw, call, mapped, outside>>

GetBlockedTools(role) ==
  /\ last' = Step("getBlockedTools", <<role>>, getBlockedTools(config, role))
  /\ UNCHANGED <<config, env, tools, mw, call, mapped, outside>>

IsToolAllowed(toolName, role) ==
  /\ last' = Step("isToolAllowed", <<toolName, role>>,
                  isToolAllowed(config, env, toolName, role))
  /\ UNCHANGED <<config, env, tools, mw, call, mapped, outside>>

FilterTools(role) ==
  /\ last' = Step("filterTools", <<role>>, filterTools(config, env, tools, role))
  /\ UNCHANGED <<config, env, tools, mw, call, mapped, outside>>

CreateMCPMiddleware(onAccessDenied, onToolExecuted) ==
  /\ ~mw.created
  /\ mw' = [created |-> TRUE, role |-> getRoleFromEnv(config, env),
            onAccessDenied |-> onAccessDenied, onToolExecuted |-> onToolExecuted]
  /\ last' = Step("createMCPMiddleware", <<onAccessDenied, onToolExecuted>>,
                  Ret(Undefined))
  /\ UNCHANGED <<config, env, tools, call, mapped, outside>>

GetToolsList ==
  /\ mw.created
  /\ last' = Step("getToolsList", <<>>, getToolsList(config, env, tools))
  /\ UNCHANGED <<config, env, tools, mw, call, mapped, outside>>

ExecuteTool(name, args) ==
  /\ mw.created
  /\ call.pc # "awaiting"
  /\ call' = executeToolStart(config, env, tools, mw, name, args)
  /\ last' = Step("executeTool", <<name, args>>, Ret(Undefined))
  /\ UNCHANGED <<config, env, tools, mw, mapped, outside>>

HandlerSettles(outcome) ==
  /\ call.pc = "awaiting"
  /\ call' = executeToolFinish(call, mw, outcome)
  /\ last' = Step("handlerSettles", <<outcome>>, Ret(Undefined))
  /\ UNCHANGED <<config, env, tools, mw, mapped, outside>>

CallGetRole ==
  /\ mw.created
  /\ last' = Step("getRole", <<>>, getRole(mw))
  /\ UNCHANGED <<config, env, tools, mw, call, mapped, outside>>

AuthenticateAgent ==
  /\ last' = Step("authenticateAgent", <<>>, authenticateAgent(config, env))
  /\ UNCHANGED <<config, env, tools, mw, call, mapped, outside>>

GetToolFilter ==
  /\ last' = Step("getToolFilter", <<>>, getToolFilter(config, env))
  /\ UNCHANGED <<config, env, tools, mw, call, mapped, outside>>

GetRoles ==
  /\ last' = Step("getRoles", <<>>, getRoles(config))
  /\ UNCHANGED <<config, env, tools, mw, call, mapped, outside>>

GetAgentInfo ==
  /\ last' = Step("getAgentInfo", <<>>, getAgentInfo(config, env))
  /\ UNCHANGED <<config, env, tools, mw, call, mapped, outside>>

\* role keys the instance is asked about: registered at construction,
\* registered at run time, never registered, the empty string, and a name
\* Object.prototype defines
RoleKeys == {"admin", "editor", "tester", "", "ghost", "constructor"}

RoleArgs == {None} \cup {Some(k) : k \in RoleKeys}

\* The policy evaluator: roles are registered and the instance is queried.
NextEval ==
  \/ \E key \in {"tester", "", "editor"}, roleConfig \in RoleConfigs :
       RegisterRole(key, roleConfig)
  \/ \E v \in {None, Some("tester"), Some("editor"), Some("constructor")} :
       SetEnvRole(v)
  \/ \E v \in {None, Some(Chars_abcdef)} : SetEnvApiKey(v)
  \/ MapApiKey(Chars_ab, "ghost")
  \/ \E toolName \in ToolNames, role \in RoleArgs : IsToolAllowed(toolName, role)
  \/ \E role \in RoleKeys : GetAllowedTools(role)
  \/ \E role \in RoleKeys : GetBlockedTools(role)
  \/ \E role \in RoleArgs : FilterTools(role)
  \/ GetRoleFromEnv

SpecEval == Init /\ [][NextEval]_vars

Prefixes == {Chars_ab, Chars_abc, Chars_14, Chars_1, Chars_10}

Credentials == {Chars_abc, Chars_abcdef, Chars_16, Chars_100, ConstructorChars}

\* The identity resolver: prefixes are mapped, the ambient inputs change and
\* the role is resolved.
NextResolve ==
  \/ \E prefix \in Prefixes, role \in {"admin", "ghost"} : MapApiKey(prefix, role)
  \/ \E v \in {None, Some("tester"), Some("constructor")} : SetEnvRole(v)
  \/ \E v \in {None, Some(<<>>), Some(Chars_abcdef)} : SetEnvApiKey(v)
  \/ RegisterRole("tester", TesterRole)
  \/ GetRoleFromEnv
  \/ \E apiKey \in Credentials : GetRoleFromApiKey(apiKey)

SpecResolve == Init /\ [][NextResolve]_vars

Observers == {"absent", "returns", "throws"}

\* The middleware: created once over the instance, then tools are listed and
\* executed while the ambient inputs and the policy change.
NextMiddleware ==
  \/ \E a \in Observers, x \in Observers : CreateMCPMiddleware(a, x)
  \/ \E v \in {None, Some("admin"), Some("tester"), Some("constructor")} :
       SetEnvRole(v)
  \/ \E roleConfig \in RoleConfigs : RegisterRole("tester", roleConfig)
  \/ GetToolsList
  \/ \E name \in ToolNames \cup {"missing_tool", "constructor"},
        args \in {"valid", "invalid"} :
       ExecuteTool(name, args)
  \/ \E outcome \in {"resolves", "rejects", "unserialisable"} : HandlerSettles(outcome)
  \/ CallGetRole

SpecMiddleware == Init /\ [][NextMiddleware]_vars

\* userConfig.roles of the merge test, and one that also redefines admin
\* with an explicit tool list
CustomRole ==
  RoleConfig("Custom", "Custom role", "limited", List(<<"tool1">>), Undefined)
ExplicitAdmin ==
  RoleConfig("Admin", "Redefined by the caller", "limited",
             List(<<"list_entries", "get_entry">>), Undefined)

UserRoles ==
  {EmptyObject,
   [k \in {"custom"} |-> CustomRole],
   [k \in {"admin", "custom"} |-> IF k = "admin" THEN ExplicitAdmin ELSE CustomRole]}

\* userConfig.knownTools of the custom known tools test
CustomKnownTools == <<"custom_tool_1", "custom_tool_2">>

\* The instance after createMCPAuth(userConfig), for the userConfig values
\* the tests construct with: roles, defaultRole and knownTools
InitConstruct ==
  /\ \E userRoles \in UserRoles,
        defaultRole \in {None, Some("ghost"), Some("editor")},
        knownTools \in {None, Some(CustomKnownTools)} :
       /\ config = createMCPAuth(userRoles, defaultRole, None, knownTools)
       /\ last = Step("createMCPAuth", <<userRoles, defaultRole, knownTools>>,
                      Ret(Undefined))
       /\ outside = Outside(userRoles, None, <<>>)
  /\ env = [role |-> None, apiKey |-> None]
  /\ tools \in Collections
  /\ mw = [created |-> FALSE, role |-> "", onAccessDenied |-> "absent",
           onToolExecuted |-> "absent"]
  /\ call = NoCall
  /\ mapped = <<>>

\* operation names the tests probe the built-in roles with
ProbedTools ==
  {"list_entries", "get_entry", "create_entry", "delete_entry", "create_user",
   "backup_create", "get_entries_by_term"}

\* Introspection: the instance is constructed from a caller's configuration,
\* the ambient inputs and the policy change, and the instance is asked who
\* the agent is and what the roles are.
NextIntrospect ==
  \/ \E v \in {None, Some("admin"), Some("tester"), Some("constructor")} :
       SetEnvRole(v)
  \/ \E v \in {None, Some(<<>>), Some(Chars_abcdef), Some(Chars_16)} :
       SetEnvApiKey(v)
  \/ \E role \in {"admin", "ghost"} : MapApiKey(Chars_ab, role)
  \/ \E roleConfig \in RoleConfigs : RegisterRole("tester", roleConfig)
  \/ AuthenticateAgent
  \/ GetToolFilter
  \/ GetRoles
  \/ GetAgentInfo
  \/ \E toolName \in ProbedTools, role \in {"editor", "viewer"} :
       IsToolAllowed(toolName, Some(role))
  \/ \E role \in {"admin", "editor", "author", "viewer", "tester"} :
       GetAllowedTools(role)
  \/ \E role \in {"admin", "editor", "tester"} : GetBlockedTools(role)
  \/ GetRoleFromEnv
  \/ GetRoleFromApiKey(Chars_abcdef)
  \/ \E role \in {None, Some("tester")} : FilterTools(role)

SpecIntrospect == InitConstruct /\ [][NextIntrospect]_vars

\* userConfig.apiKeyMap: absent, an empty object, and an object that maps
\* one prefix
UserApiKeyMaps ==
  {None, Some(<<>>), Some(<<[prefix |-> Chars_ab, role |-> "admin"]>>)}

\* The instance after createMCPAuth(userConfig) with roles and apiKeyMap
\* objects of the caller, beside another instance constructed from the
\* same userConfig and the module's default instance
InitIsolation ==
  /\ \E userRoles \in UserRoles, apiKeyMap \in UserApiKeyMaps :
       /\ config = createMCPAuth(userRoles, None, apiKeyMap, None)
       /\ last = Step("createMCPAuth", <<userRoles, apiKeyMap>>, Ret(Undefined))
       /\ outside = Outside(userRoles, apiKeyMap,
                            <<Instance(createMCPAuth(userRoles, None, apiKeyMap, None),
                                       TRUE),
                              Instance(mcpAuth, FALSE)>>)
       /\ mapped = IF IsSome(apiKeyMap)
                   THEN [i \in 1..Len(Val(apiKeyMap)) |-> Val(apiKeyMap)[i].prefix]
                   ELSE <<>>
  /\ env = [role |-> None, apiKey |-> None]
  /\ tools \in Collections
  /\ mw = [created |-> FALSE, role |-> "", onAccessDenied |-> "absent",
           onToolExecuted |-> "absent"]
  /\ call = NoCall

\* Isolation: the policy of one instance is changed and queried while the
\* caller's objects and the other instances stand by.
NextIsolation ==
  \/ \E prefix \in {Chars_ab, Chars_abc}, role \in {"admin", "editor"} :
       MapApiKey(prefix, role)
  \/ \E roleConfig \in RoleConfigs : RegisterRole("tester", roleConfig)
  \/ \E v \in {None, Some(Chars_abcdef)} : SetEnvApiKey(v)
  \/ GetRoleFromEnv
  \/ GetRoleFromApiKey(Chars_abcdef)
  \/ \E toolName \in ToolNames : IsToolAllowed(toolName, Some("tester"))
  \/ GetRoles

SpecIsolation == InitIsolation /\ [][NextIsolation]_vars

Next ==
  NextEval \/ NextResolve \/ NextMiddleware \/ NextIntrospect \/ NextIsolation

Spec == (Init \/ InitConstruct \/ InitIsolation) /\ [][Next]_vars

----------------------------------------------------------------------------
(* Properties of the policy evaluator, checked under SpecEval *)

Registered(key) == key \in DOMAIN config.roles

\* the last step was a call of op that returned
Returned(op) == last.op = op /\ last.res.kind = "return"

\* C1: for every registered role whose tools are an explicit list S and
\* every operation name x, isToolAllowed(x, role) is true exactly when x is
\* a member of S.
C1_ExplicitRoleMembership ==
  (/\ last.op = "isToolAllowed"
   /\ IsSome(last.args[2])
   /\ Registered(Val(last.args[2]))
   /\ config.roles[Val(last.args[2])].tools.t = "list")
  => last.res =
       Ret(Bool(last.args[1] \in Elems(config.roles[Val(last.args[2])].tools.v)))

\* C2: for every registered role whose tools are the wildcard,
\* isToolAllowed(x, role) is true for every operation name x, in the
\* known-tools universe or not.
C2_WildcardAllowsAll ==
  (/\ last.op = "isToolAllowed"
   /\ IsSome(last.args[2])
   /\ Registered(Val(last.args[2]))
   /\ config.roles[Val(last.args[2])].tools = Wildcard)
  => last.res = Ret(Bool(TRUE))

\* C3: for every role key K that is not registered at the time of the call,
\* isToolAllowed(x, K) is false, getAllowedTools(K) and getBlockedTools(K)
\* are empty and filterTools(C, K) is the empty mapping.
C3_UnregisteredRoleDenied ==
  /\ (/\ last.op = "isToolAllowed"
      /\ IsSome(last.args[2])
      /\ ~Registered(Val(last.args[2])))
     => last.res = Ret(Bool(FALSE))
  /\ (last.op \in {"getAllowedTools", "getBlockedTools"} /\ ~Registered(last.args[1]))
     => last.res = Ret(List(<<>>))
  /\ (/\ last.op = "filterTools"
      /\ IsSome(last.args[1])
      /\ ~Registered(Val(last.args[1])))
     => last.res = Ret(Obj(EmptyObject))

\* C5: filterTools(C, R) has only keys that are keys of C, each included key
\* maps to the same entry as in C, and C has the same keys and entries after
\* the call as before it.
C5_FilterIsSubMapping ==
  [][last'.op = "filterTools"
       => /\ last'.res.kind = "return"
          /\ DOMAIN last'.res.val.v \subseteq DOMAIN tools
          /\ \A name \in DOMAIN last'.res.val.v : last'.res.val.v[name] = tools[name]
          /\ tools' = tools]_vars

\* C5 witness: a call that filtered: an explicit-list role kept some of the
\* collection's tools and dropped others.
C5_Witness ==
  /\ Returned("filterTools")
  /\ last.args[1] = Some("editor")
  /\ config.roles["editor"] = OverlapRole
  /\ DOMAIN last.res.val.v = {"list_entries", "tool1"}
  /\ "create_user" \in DOMAIN tools

----------------------------------------------------------------------------
(* Properties of the identity resolver, checked under SpecResolve *)

\* the position of a prefix in the order of first registration
FirstMappedAt(prefix) == CHOOSE i \in 1..Len(mapped) : mapped[i] = prefix

\* the registered prefixes that are literal prefixes of a credential
Matching(apiKey) ==
  {config.apiKeyMap[i].prefix : i \in {j \in 1..Len(config.apiKeyMap) :
     startsWith(apiKey, config.apiKeyMap[j].prefix)}}

RoleOfPrefix(prefix) == config.apiKeyMap[OwnIndex(config.apiKeyMap, prefix)].role

\* the matching prefix that was registered first
FirstRegistered(apiKey) ==
  CHOOSE p \in Matching(apiKey) :
    \A q \in Matching(apiKey) : FirstMappedAt(p) <= FirstMappedAt(q)

\* the credential's first 14 characters, or all of it when it is shorter
First14(apiKey) == SubSeq(apiKey, 1, IF Len(apiKey) < 14 THEN Len(apiKey) ELSE 14)

\* C6: getRoleFromEnv returns the role claim when it names a currently
\* registered role; otherwise getRoleFromApiKey(credential) when a non-empty
\* credential is present; otherwise the default role, registered or not. A
\* claim naming an unregistered role gives the same result as no claim.
C6_ResolutionPrecedence ==
  last.op = "getRoleFromEnv"
  => last.res =
       Ret(Str(IF IsSome(env.role) /\ Registered(Val(env.role))
               THEN Val(env.role)
               ELSE IF IsSome(env.apiKey) /\ Val(env.apiKey) # <<>>
               THEN getRoleFromApiKey(config, Val(env.apiKey))
               ELSE config.defaultRole))

\* C7: getRoleFromApiKey returns the role mapped to the credential's first
\* 14 characters when such a mapping exists; otherwise the role of the
\* first registered mapping whose prefix is a literal prefix of the
\* credential; otherwise the default role.
C7_CredentialResolution ==
  last.op = "getRoleFromApiKey"
  => LET apiKey == last.args[1]
     IN  last.res =
           Ret(Str(IF OwnIndex(config.apiKeyMap, First14(apiKey)) # 0
                   THEN RoleOfPrefix(First14(apiKey))
                   ELSE IF Matching(apiKey) # {}
                   THEN RoleOfPrefix(FirstRegistered(apiKey))
                   ELSE config.defaultRole))

ListedBefore(p, q) ==
  IF IsArrayIndex(p) /\ IsArrayIndex(q) THEN DigitsLess(p, q)
  ELSE IF IsArrayIndex(p) # IsArrayIndex(q) THEN IsArrayIndex(p)
  ELSE FirstMappedAt(p) < FirstMappedAt(q)

----------------------------------------------------------------------------
(* Properties of the middleware, checked under SpecMiddleware *)

\* C4: in executeTool, whenever the permission check returns false the
\* handler is not invoked in that call and the call resolves to an isError
\* result whose text names the denied tool and a role; a handler is invoked
\* only in a call whose permission check returned true.
C4_DeniedCallResolves ==
  /\ call.check = "false"
     => /\ call.handlerRuns = 0
        /\ call.result.kind = "resolved"
        /\ call.result.isError
        /\ call.result.text.tool = Some(call.name)
        /\ IsSome(call.result.text.role)
  /\ call.handlerRuns > 0 => call.check = "true"

\* C9: for every registered role R and every tool t in getBlockedTools(R),
\* t is absent from filterTools(C, R) and from getToolsList(), and
\* executeTool(t) under role R is denied without running the handler.
C9_BlockedNeverExposed ==
  \A R \in DOMAIN config.roles :
    \A t \in Elems(getBlockedTools(config, R).val.v) :
      /\ t \notin DOMAIN filterTools(config, env, tools, Some(R)).val.v
      /\ (mw.created /\ getRoleFromEnv(config, env) = R)
         => /\ t \notin getToolsList(config, env, tools).val.v
            /\ executeToolStart(config, env, tools, mw, t, "valid").check = "false"
            /\ executeToolStart(config, env, tools, mw, t, "valid").handlerRuns = 0

----------------------------------------------------------------------------
(* Frame of registerRole, checked under SpecEval *)

\* what a role definition permits
Permits(roleConfig, x) ==
  roleConfig.tools = Wildcard \/ includes(roleConfig.tools.v, x)

\* C10: registerRole(key, definition) changes only the role at key:
\* afterwards isToolAllowed(x, key) reflects the new definition, every query
\* about another role key answers as before, and the prefix mappings, the
\* default role and the known-tools universe are unchanged.
C10_RegisterRoleFrame ==
  [][last'.op = "registerRole"
       => /\ \A x \in ToolNames :
               isToolAllowed(config', env', x, Some(last'.args[1]))
                 = Ret(Bool(Permits(last'.args[2], x)))
          /\ \A k \in RoleKeys \ {last'.args[1]} :
               /\ \A x \in ToolNames :
                    isToolAllowed(config', env', x, Some(k))
                      = isToolAllowed(config, env, x, Some(k))
               /\ getAllowedTools(config', k) = getAllowedTools(config, k)
               /\ getBlockedTools(config', k) = getBlockedTools(config, k)
               /\ filterTools(config', env', tools', Some(k))
                    = filterTools(config, env, tools, Some(k))
          /\ config'.apiKeyMap = config.apiKeyMap
          /\ config'.defaultRole = config.defaultRole
          /\ config'.knownTools = config.knownTools]_vars

----------------------------------------------------------------------------
(* Overwriting and construction *)

\* the answer a role definition alone determines for getBlockedTools
BlockedBy(roleConfig) ==
  IF roleConfig.tools = Wildcard \/ roleConfig.blockedTools = Undefined
  THEN List(<<>>)
  ELSE roleConfig.blockedTools

\* the answer a role definition alone determines for getAllowedTools
AllowedBy(roleConfig) ==
  IF roleConfig.tools = Wildcard THEN List(config.knownTools) ELSE roleConfig.tools

\* C11: registering a role key that already exists replaces the previous
\* definition completely: after registerRole(k, d2) over an earlier
\* definition every query about k (isToolAllowed, getAllowedTools,
\* getBlockedTools, filterTools) answers according to d2 only; and
\* mapApiKey on an already-mapped prefix leaves one entry for the prefix,
\* with the new role, and the other entries as they were.
C11_LastWriteWins ==
  [][/\ (last'.op = "registerRole" /\ last'.args[1] \in DOMAIN config.roles)
          => LET k == last'.args[1]
                 d2 == last'.args[2]
             IN  /\ \A x \in ToolNames :
                      isToolAllowed(config', env', x, Some(k))
                        = Ret(Bool(Permits(d2, x)))
                 /\ getAllowedTools(config', k) = Ret(AllowedBy(d2))
                 /\ getBlockedTools(config', k) = Ret(BlockedBy(d2))
                 /\ filterTools(config', env', tools', Some(k))
                      = Ret(Obj([n \in {m \in DOMAIN tools : Permits(d2, m)}
                                   |-> tools[n]]))
     /\ (last'.op = "mapApiKey" /\ OwnIndex(config.apiKeyMap, last'.args[1]) # 0)
          => LET i == OwnIndex(config.apiKeyMap, last'.args[1])
             IN  /\ Len(config'.apiKeyMap) = Len(config.apiKeyMap)
                 /\ config'.apiKeyMap[i]
                      = [prefix |-> last'.args[1], role |-> last'.args[2]]
                 /\ \A j \in 1..Len(config.apiKeyMap) :
                      j # i => config'.apiKeyMap[j] = config.apiKeyMap[j]
                 /\ GetMapped(config'.apiKeyMap, last'.args[1])
                      = Some(last'.args[2])]_vars

\* C12: after createMCPAuth(userConfig) the role map is the built-in
\* defaults merged under the caller's roles: every caller-supplied key has
\* exactly the caller's definition, every built-in key the caller did not
\* supply keeps its built-in definition, and no other key exists; an admin
\* redefined with an explicit tool list is evaluated as a non-wildcard role.
C12_ConstructionMerge ==
  last.op = "createMCPAuth"
    => LET userRoles == last.args[1]
       IN  /\ DOMAIN config.roles
                = {"admin", "editor", "author", "viewer"} \cup DOMAIN userRoles
           /\ \A k \in DOMAIN userRoles : config.roles[k] = userRoles[k]
           /\ \A k \in {"admin", "editor", "author", "viewer"} \ DOMAIN userRoles :
                config.roles[k] = DEFAULT_ROLES[k]
           /\ ("admin" \in DOMAIN userRoles /\ userRoles["admin"].tools # Wildcard)
                => /\ getAllowedTools(config, "admin") = Ret(userRoles["admin"].tools)
                   /\ \A x \in ProbedTools :
                        isToolAllowed(config, env, x, Some("admin"))
                          = Ret(Bool(includes(userRoles["admin"].tools.v, x)))

\* an instance constructed with a caller role that redefines admin with an
\* explicit list and adds a key of its own
C12_Witness ==
  /\ last.op = "createMCPAuth"
  /\ {"admin", "custom"} \subseteq DOMAIN last.args[1]
  /\ last.args[1]["admin"].tools # Wildcard
  /\ isToolAllowed(config, env, "create_user", Some("admin")) = Ret(Bool(FALSE))
  /\ config.roles["editor"] = DEFAULT_ROLES["editor"]

----------------------------------------------------------------------------
(* Properties of introspection, checked under SpecIntrospect *)

AuthOperations ==
  {"getRoleFromEnv", "getRoleFromApiKey", "authenticateAgent", "getAllowedTools",
   "getBlockedTools", "isToolAllowed", "filterTools", "getToolFilter", "getRoles",
   "getAgentInfo", "registerRole", "mapApiKey"}

\* C13: no operation of the auth instance throws, whatever the ambient
\* inputs and the policy state, also when the resolved role and the default
\* role are both unregistered; and getAgentInfo always returns a summary
\* that has a name and a description.
C13_NeverThrows ==
  /\ last.op \in AuthOperations => last.res.kind = "return"
  /\ last.op = "getAgentInfo"
       => /\ last.res.kind = "return"
          /\ last.res.val.name.t = "string"
          /\ last.res.val.description.t = "string"

\* C14: authenticateAgent() returns authenticated=false, role=null,
\* userId=null and an error message exactly when the role getRoleFromEnv()
\* produces is not registered; in every other case it returns
\* authenticated=true with role equal to the resolved role.
C14_AuthenticatedIffRegistered ==
  Returned("authenticateAgent")
    => LET role == getRoleFromEnv(config, env)
           auth == last.res.val
       IN  IF Registered(role)
           THEN auth.authenticated /\ auth.role = Some(role)
           ELSE /\ ~auth.authenticated
                /\ auth.role = None
                /\ auth.userId = None
                /\ IsSome(auth.error)

\* the direct role claim decided the resolution
ClaimUsed ==
  TruthyStr(env.role) /\ Truthy(GetRole(config.roles, Val(env.role)))

\* the resolution went to the credential and a mapping matched it
CredentialUsed ==
  /\ ~ClaimUsed
  /\ TruthyChars(env.apiKey)
  /\ \/ TruthyStr(GetMapped(config.apiKeyMap, First14(Val(env.apiKey))))
     \/ Matching(Val(env.apiKey)) # {}

\* C15: on successful authentication the identity tag records how the role
\* was resolved: 'api-key:' followed by the first 14 characters of the
\* credential when the role was derived from the credential, 'env-role'
\* when the resolution used the direct role claim or the default role.
C15_TagRecordsResolution ==
  (Returned("authenticateAgent") /\ last.res.val.authenticated)
    => last.res.val.userId
         = Some(IF CredentialUsed
                THEN UserId("api-key", First14(Val(env.apiKey)))
                ELSE UserId("env-role", <<>>))

\* C15 as the code has it: on successful authentication the identity tag is
\* 'api-key:' followed by the first 14 characters of the credential whenever
\* a non-empty credential is present, whether or not the role was derived
\* from it, and 'env-role' exactly when no credential is present.
C15_TagRecordsCredential ==
  (Returned("authenticateAgent") /\ last.res.val.authenticated)
    => last.res.val.userId
         = Some(IF IsSome(env.apiKey) /\ Val(env.apiKey) # <<>>
                THEN UserId("api-key", First14(Val(env.apiKey)))
                ELSE UserId("env-role", <<>>))

\* the role came from the direct claim while a credential longer than 14
\* characters was present, and the tag names the credential
C15_Witness ==
  /\ Returned("authenticateAgent")
  /\ last.res.val.authenticated
  /\ ClaimUsed
  /\ env.apiKey = Some(Chars_16)
  /\ last.res.val.userId = Some(UserId("api-key", Chars_14))

\* the role at key is the built-in one
BuiltIn(key) == Registered(key) /\ config.roles[key] = DEFAULT_ROLES[key]

\* the last step asked isToolAllowed(toolName, role) and got answer
Answered(toolName, role, answer) ==
  (last.op = "isToolAllowed" /\ last.args = <<toolName, Some(role)>>)
    => last.res = Ret(Bool(answer))

\* the last step asked getAllowedTools(role) and got n entries
Counted(role, n) ==
  (last.op = "getAllowedTools" /\ last.args = <<role>>)
    => last.res.kind = "return" /\ Len(last.res.val.v) = n

\* C16: with the built-in defaults, editor permits list_entries and denies
\* create_user and backup_create; getAllowedTools has 26 entries for editor,
\* 15 for author and 13 for viewer; viewer permits list_entries and
\* get_entry and denies create_entry and delete_entry;
\* getBlockedTools(editor) contains create_user; and the built-in
\* known-tools universe has more than 50 names.
C16_BuiltInDefaults ==
  /\ BuiltIn("editor")
       => /\ Answered("list_entries", "editor", TRUE)
          /\ Answered("create_user", "editor", FALSE)
          /\ Answered("backup_create", "editor", FALSE)
          /\ Counted("editor", 26)
          /\ (last.op = "getBlockedTools" /\ last.args = <<"editor">>)
               => includes(last.res.val.v, "create_user")
  /\ BuiltIn("author") => Counted("author", 15)
  /\ BuiltIn("viewer")
       => /\ Answered("list_entries", "viewer", TRUE)
          /\ Answered("get_entry", "viewer", TRUE)
          /\ Answered("create_entry", "viewer", FALSE)
          /\ Answered("delete_entry", "viewer", FALSE)
          /\ Counted("viewer", 13)
  /\ Len(DEFAULT_KNOWN_TOOLS) > 50

\* getAllowedTools('editor') was asked of the built-in editor
C16_Witness ==
  /\ BuiltIn("editor")
  /\ last.op = "getAllowedTools"
  /\ last.args = <<"editor">>
  /\ Len(last.res.val.v) = 26

----------------------------------------------------------------------------
(* Further properties of the policy evaluator, checked under SpecEval *)

\* C17: getBlockedTools(role) returns the empty list for an unregistered
\* role and for a wildcard role, also one that has a blockedTools list, and
\* otherwise exactly the blockedTools list the role was given (empty when
\* it has none); it is not the known tools minus the allowed ones.
C17_BlockedIsDocumented ==
  last.op = "getBlockedTools"
    => LET role == last.args[1]
       IN  last.res = Ret(IF ~Registered(role) THEN List(<<>>)
                          ELSE IF config.roles[role].tools = Wildcard
                          THEN List(<<>>)
                          ELSE IF config.roles[role].blockedTools = Undefined
                          THEN List(<<>>)
                          ELSE config.roles[role].blockedTools)

\* a role without a blockedTools list reports no blocked tools although it
\* denies a known tool
C17_Witness ==
  /\ last.op = "getBlockedTools"
  /\ last.args = <<"tester">>
  /\ Registered("tester")
  /\ config.roles["tester"].tools # Wildcard
  /\ config.roles["tester"].blockedTools = Undefined
  /\ last.res = Ret(List(<<>>))
  /\ includes(config.knownTools, "create_user")
  /\ ~Permits(config.roles["tester"], "create_user")

----------------------------------------------------------------------------
(* Further properties of introspection, checked under SpecIntrospect *)

\* C18: getRoles() lists every currently registered role exactly once, and
\* nothing else, and each entry's toolCount is the length of
\* getAllowedTools(key): the size of the instance's known-tools universe
\* for a wildcard role, for which getAllowedTools returns that universe, and
\* the size of the role's own tool list otherwise.
C18_RolesListedOnce ==
  last.op = "getRoles"
    => /\ last.res.kind = "return"
       /\ LET infos == last.res.val.v
          IN  /\ \A k \in DOMAIN config.roles :
                   Cardinality({i \in 1..Len(infos) : infos[i].key = k}) = 1
              /\ \A i \in 1..Len(infos) :
                   LET k == infos[i].key
                   IN  /\ Registered(k)
                       /\ infos[i].toolCount = Len(getAllowedTools(config, k).val.v)
                       /\ IF config.roles[k].tools = Wildcard
                          THEN /\ getAllowedTools(config, k) = Ret(List(config.knownTools))
                               /\ infos[i].toolCount = Len(config.knownTools)
                          ELSE infos[i].toolCount = Len(config.roles[k].tools.v)

\* the listing of an instance constructed with its own known tools, after a
\* wildcard role was added by registerRole
C18_Witness ==
  /\ Returned("getRoles")
  /\ config.knownTools = CustomKnownTools
  /\ Registered("tester")
  /\ config.roles["tester"].tools = Wildcard
  /\ \E i \in 1..Len(last.res.val.v) :
       /\ last.res.val.v[i].key = "tester"
       /\ last.res.val.v[i].toolCount = Len(CustomKnownTools)

\* C19: getAgentInfo() reports the role getRoleFromEnv() returns at that
\* moment, allowedToolCount and blockedToolCount equal to the lengths of
\* getAllowedTools and getBlockedTools for that role, and the name and
\* description of the resolved role's definition, or of the default role's
\* definition when the resolved role is unregistered, in which case both
\* counts are 0.
C19_AgentInfo ==
  last.op = "getAgentInfo"
    => /\ last.res.kind = "return"
       /\ LET info == last.res.val
              role == getRoleFromEnv(config, env)
              shown == IF Registered(role) THEN role ELSE config.defaultRole
          IN  /\ info.role = role
              /\ info.allowedToolCount = Len(getAllowedTools(config, role).val.v)
              /\ info.blockedToolCount = Len(getBlockedTools(config, role).val.v)
              /\ Registered(shown)
              /\ info.name = Str(config.roles[shown].name)
              /\ info.description = Str(config.roles[shown].description)
              /\ ~Registered(role)
                   => info.allowedToolCount = 0 /\ info.blockedToolCount = 0

----------------------------------------------------------------------------
(* Idempotence of the filter, checked under SpecEval *)

\* C20: filtering is idempotent: for the collection C and every role R
\* (wildcard, explicit, unregistered or omitted), filtering the result of
\* filterTools(C, R) again for R, with the policy and the ambient inputs as
\* they were, gives the same keys and the same entries.
C20_FilterIdempotent ==
  Returned("filterTools")
    => filterTools(config, env, last.res.val.v, last.args[1]) = last.res

\* an explicit role for which the filter kept some entries of the collection
\* and dropped others
C20_Witness ==
  /\ Returned("filterTools")
  /\ last.args = <<Some("tester")>>
  /\ Registered("tester")
  /\ config.roles["tester"].tools # Wildcard
  /\ DOMAIN last.res.val.v # {}
  /\ DOMAIN last.res.val.v # DOMAIN tools
  /\ DOMAIN last.res.val.v \subseteq DOMAIN tools
  /\ filterTools(config, env, last.res.val.v, last.args[1]) = last.res

----------------------------------------------------------------------------
(* Determinism of the resolution, checked under SpecEval *)

----------------------------------------------------------------------------
(* The built-in roles, checked under SpecIntrospect *)

\* C22: the default role viewer is the most restrictive built-in role:
\* every operation the built-in viewer is permitted is also permitted to
\* each of the built-in author, editor and admin roles.
C22_ViewerMostRestrictive ==
  (/\ last.op = "isToolAllowed"
   /\ last.args[2] = Some("viewer")
   /\ BuiltIn("viewer")
   /\ last.res = Ret(Bool(TRUE)))
    => \A role \in {"author", "editor", "admin"} :
         BuiltIn(role)
           => isToolAllowed(config, env, last.args[1], Some(role)) = Ret(Bool(TRUE))

----------------------------------------------------------------------------
(* Further properties of the middleware, checked under SpecMiddleware *)

\* C23: the role named in a denial response, passed to onAccessDenied and
\* onToolExecuted, and returned by getRole() is the role under which the
\* permission decision of that call was evaluated, whatever changes of the
\* ambient inputs and of the policy were made since the middleware was
\* created.
C23_NamedRoleIsEvaluatedRole ==
  call.check \in {"true", "false"}
    => /\ (call.check = "false" /\ call.result.kind = "resolved")
            => call.result.text.role = Some(call.evaluatedRole)
       /\ \A i \in 1..Len(call.denied) : call.denied[i].role = call.evaluatedRole
       /\ \A i \in 1..Len(call.executed) : call.executed[i].role = call.evaluatedRole
       /\ last.op \in {"executeTool", "handlerSettles"}
            => getRole(mw) = Ret(Str(call.evaluatedRole))

\* C24: in executeTool, a name that is permitted for the resolved role but
\* absent from the host's collection yields an 'Unknown tool' error result,
\* distinct from the access-denied result, with no handler invoked and
\* neither observer called; a name that is both denied and absent yields
\* the access-denied result.
C24_UnknownToolIsDistinct ==
  (call.pc = "done" /\ call.name \notin DOMAIN tools)
    => /\ call.check = "true"
            => /\ call.result = Resolved(TRUE, UnknownToolText(call.name))
               /\ call.result.text.msg # "Access denied"
               /\ call.handlerRuns = 0
               /\ call.denied = <<>>
               /\ call.executed = <<>>
       /\ call.check = "false"
            => /\ call.result.kind = "resolved"
               /\ call.result.isError
               /\ call.result.text.msg = "Access denied"
               /\ call.result.text.tool = Some(call.name)

----------------------------------------------------------------------------
(* The policy store, checked under SpecIntrospect *)

\* the prefixes that have a mapping
MappedPrefixes(cfg) == {cfg.apiKeyMap[i].prefix : i \in 1..Len(cfg.apiKeyMap)}

\* C25: policy mutation is additive only: no step of the instance removes a
\* registered role key or a mapped prefix, and every step other than
\* registerRole and mapApiKey (resolution, evaluation, filtering,
\* introspection, authentication) leaves the policy store as it was.
C25_AdditiveOnly ==
  [][/\ DOMAIN config.roles \subseteq DOMAIN config'.roles
     /\ MappedPrefixes(config) \subseteq MappedPrefixes(config')
     /\ last'.op \notin {"registerRole", "mapApiKey"} => config' = config]_vars

\* a read after a role was added to the four built-in ones and a prefix was
\* mapped
C25_Witness ==
  /\ last.op \in {"getRoles", "getRoleFromEnv", "isToolAllowed", "filterTools",
                  "authenticateAgent"}
  /\ {"admin", "editor", "author", "viewer", "tester"} \subseteq DOMAIN config.roles
  /\ MappedPrefixes(config) = {Chars_ab}

----------------------------------------------------------------------------
(* The observers and the agreement of listing and gating, checked under
   SpecMiddleware *)

\* the number of calls an observer option received in a call it applies to
Calls(observer) == IF observer = "absent" THEN 0 ELSE 1

\* C26: in every executeTool call at most one observer callback fires:
\* onAccessDenied exactly once when the call is denied; onToolExecuted
\* exactly once and only after the handler has completed successfully, not
\* when the call is denied, the tool is unknown, validation fails or the
\* handler rejects; and a successful handler run is always reported as a
\* non-error result.
C26_ObserversAndSuccess ==
  /\ Len(call.denied) + Len(call.executed) <= 1
  /\ call.check = "false" => Len(call.denied) = Calls(mw.onAccessDenied)
  /\ call.check # "false" => call.denied = <<>>
  /\ call.executed # <<>>
       => /\ call.check = "true"
          /\ call.handlerRuns = 1
          /\ call.pc = "done"
          /\ last.op = "handlerSettles" => last.args[1] # "rejects"
  /\ (last.op = "handlerSettles" /\ last.args[1] = "rejects") => call.executed = <<>>
  /\ (last.op = "handlerSettles" /\ last.args[1] = "resolves")
       => /\ Len(call.executed) = Calls(mw.onToolExecuted)
          /\ call.result = Resolved(FALSE, SuccessText)

\* C27: listing and gating agree: for the collection C, every role R and
\* every key k of C, k is a key of filterTools(C, R) exactly when
\* isToolAllowed(k, R) is true in the same policy state; hence a tool that
\* getToolsList() returns passes the permission check of an executeTool
\* call made in the same state, and a tool of the collection that it does
\* not return is denied.
C27_ListingAgreesWithGating ==
  [][/\ \A R \in RoleArgs, k \in DOMAIN tools :
          k \in DOMAIN filterTools(config, env, tools, R).val.v
            <=> isToolAllowed(config, env, k, R) = Ret(Bool(TRUE))
     /\ (last'.op = "executeTool" /\ call'.name \in DOMAIN tools)
          => IF call'.name \in getToolsList(config, env, tools).val.v
             THEN call'.check = "true"
             ELSE call'.check = "false"]_vars

----------------------------------------------------------------------------
(* Introspection and enforcement, checked under SpecIntrospect *)

\* C28: introspection agrees with enforcement for the current identity:
\* getToolFilter().role equals getRoleFromEnv() and getAgentInfo().role,
\* every tool in getToolFilter().allowedTools is one for which
\* isToolAllowed(tool) with no explicit role returns true, and when the
\* resolved role is unregistered getToolFilter reports no allowed tools.
C28_FilterAgreesWithEnforcement ==
  last.op = "getToolFilter"
    => /\ last.res.kind = "return"
       /\ LET filter == last.res.val
              role == getRoleFromEnv(config, env)
              info == getAgentInfo(config, env)
          IN  /\ filter.role = role
              /\ info.kind = "return" => filter.role = info.val.role
              /\ filter.allowedTools.t = "list"
              /\ \A tool \in Elems(filter.allowedTools.v) :
                   isToolAllowed(config, env, tool, None) = Ret(Bool(TRUE))
              /\ ~Registered(role) => filter.allowedTools = List(<<>>)

----------------------------------------------------------------------------
(* Isolation of the instances, checked under SpecIsolation *)

\* the answers of an instance that a change of its policy could change
Answers(cfg) ==
  [roleOf  |-> [apiKey \in Credentials |-> getRoleFromApiKey(cfg, apiKey)],
   allowed |-> [role \in RoleKeys |-> getAllowedTools(cfg, role)],
   blocked |-> [role \in RoleKeys |-> getBlockedTools(cfg, role)],
   roles   |-> getRoles(cfg)]

\* C29: instances created by createMCPAuth are isolated from each other and
\* from their callers' configuration: registerRole or mapApiKey on one
\* instance changes no answer of another instance, also one constructed
\* from the same roles or apiKeyMap object, leaves the built-in roles of
\* the default instance as they are, and does not modify the roles or
\* apiKeyMap object the caller passed at construction.
C29_InstancesIsolated ==
  [][last'.op \in {"registerRole", "mapApiKey"}
       => /\ \A i \in DOMAIN outside.others :
               /\ Answers(outside'.others[i].config)
                    = Answers(outside.others[i].config)
               /\ ~outside.others[i].fromUserConfig
                    => outside'.others[i].config.roles = DEFAULT_ROLES
          /\ outside'.userRoles = outside.userRoles
          /\ outside'.userApiKeyMap = outside.userApiKeyMap]_vars

====
